---- MODULE Spec2Model ----
(***************************************************************************)
(* A model of the two adapters of jaqalpaq-extras:                         *)
(*   - qscout/jaqal/parser.py: CoreTypesVisitor, the rewrite of a Jaqal    *)
(*     parse tree into core objects (specification SpecParse);             *)
(*   - jaqalpaq/transpilers/qiskit/aer.py: IonInstance.execute and         *)
(*     IonResult.get_counts (specification SpecAer).                       *)
(***************************************************************************)
EXTENDS Integers, Sequences, FiniteSets, TLC

\* ------------------------------------------------------------------------
\* Bounds of the model
\* ------------------------------------------------------------------------
MaxBody == 2
MaxArgs == 2
MaxCircuits == 2
MaxShots == 2

GateNames == {"g", "h"}

VARIABLES
    \* parser.py
    header,            \* header statements of the program being walked
    registers,         \* CoreTypesVisitor.registers
    gate_definitions,  \* CoreTypesVisitor.gate_definitions
    children,          \* visited arguments of the gate statement being walked
    stmts,             \* visited body statements, in program order
    body,              \* history: the gate statements visited successfully
    created,           \* history: name of every GateDefinition constructed
    pc,                \* "walk" | "done" | "error"
    err,               \* "none" | "TypeError" | "KeyError" | "IndexError"
    circuit,           \* what parse_jaqal_string returns
    \* aer.py
    circuits,          \* the circuits given to IonInstance.execute
    nshots,            \* self._run_config.shots
    ci,                \* number of circuits executed so far
    probs,             \* outcomes with non-zero probability, current circuit
    shots,             \* the list of sampled strings of the current circuit
    counts,            \* the dict counts of execute: [keys, map]
    tallies,           \* history: the tally of every executed circuit
    apc,               \* "idle" | "run" | "sample" | "returned"
    result,            \* IonResult.counts of the returned result
    got                \* what the last get_counts call returned

pvars == <<header, registers, gate_definitions, children, stmts, body,
           created, pc, err, circuit>>
avars == <<circuits, nshots, ci, probs, shots, counts, tallies, apc,
           result, got>>
vars == <<header, registers, gate_definitions, children, stmts, body,
          created, pc, err, circuit, circuits, nshots, ci, probs, shots,
          counts, tallies, apc, result, got>>

\* ------------------------------------------------------------------------
\* Helpers
\* ------------------------------------------------------------------------
Range(s) == {s[i] : i \in 1..Len(s)}

RECURSIVE SumMap(_)
SumMap(m) ==
    IF DOMAIN m = {} THEN 0
    ELSE LET k == CHOOSE x \in DOMAIN m : TRUE
         IN m[k] + SumMap([x \in DOMAIN m \ {k} |-> m[x]])

\* ========================================================================
\* parser.py
\* ========================================================================

\* Values an argument of a gate statement can be.  A numeric token of the
\* tree, the float made of it, a NamedQubit, or any other subtree.
NumberTok(v) == [t |-> "number", reg |-> "", n |-> v]
Float(v) == [t |-> "float", reg |-> "", n |-> v]
NamedQubit(r, i) == [t |-> "qubit", reg |-> r, n |-> i]
OtherTree == [t |-> "tree", reg |-> "", n |-> 0]

\* The register_dict that Interface.make_register_dict yields for a header.
HeaderNoRegister == <<[kind |-> "usepulses", name |-> "", size |-> 0]>>
HeaderWithRegister == <<[kind |-> "usepulses", name |-> "", size |-> 0],
                        [kind |-> "register", name |-> "r", size |-> 2]>>
Headers == {HeaderNoRegister, HeaderWithRegister}

make_register_dict(h) ==
    LET decl == {h[i] : i \in {j \in 1..Len(h) : h[j].kind = "register"}}
    IN [nm \in {d.name : d \in decl} |->
            (CHOOSE d \in decl : d.name = nm).size]

\* Register(name, size): size addressable slots, slot i being NamedQubit i.
Register(name, size) == [i \in 1..size |-> NamedQubit(name, i - 1)]

\* Register.__getitem__
RegisterGetItem(reg, index) ==
    IF index >= 0 /\ index < Len(reg)
    THEN [ok |-> TRUE, val |-> reg[index + 1], err |-> "none"]
    ELSE [ok |-> FALSE, val |-> OtherTree, err |-> "IndexError"]

\* CoreTypesVisitor.__init__
VisitorRegisters(register_dict) ==
    [nm \in DOMAIN register_dict |-> Register(nm, register_dict[nm])]

NoCircuit == [ok |-> FALSE, gates |-> <<>>]

\* f"{index}"
IndexName(index) ==
    <<"0", "1", "2", "3", "4", "5", "6", "7", "8", "9">>[index + 1]

\* CoreTypesVisitor.visit_array_element_qual, a mutant that drops the index
visit_array_element_qual_first(identifier, index) ==
    IF identifier \notin DOMAIN registers
    THEN [ok |-> FALSE, val |-> OtherTree, err |-> "KeyError"]
    ELSE RegisterGetItem(registers[identifier], 0)

\* CoreTypesVisitor.visit_array_element_qual
visit_array_element_qual(identifier, index) ==
    IF identifier \notin DOMAIN registers
    THEN [ok |-> FALSE, val |-> OtherTree, err |-> "KeyError"]
    ELSE RegisterGetItem(registers[identifier], index)

\* CoreTypesVisitor.convert_gate_arg, a mutant without the float conversion
convert_gate_arg_nofloat(arg) ==
    IF arg.t = "number" THEN [ok |-> TRUE, val |-> arg]
    ELSE IF arg.t = "qubit" THEN [ok |-> TRUE, val |-> arg]
    ELSE [ok |-> FALSE, val |-> arg]

\* CoreTypesVisitor.convert_gate_arg
convert_gate_arg(arg) ==
    IF arg.t = "number" THEN [ok |-> TRUE, val |-> Float(arg.n)]
    ELSE IF arg.t = "qubit" THEN [ok |-> TRUE, val |-> arg]
    ELSE [ok |-> FALSE, val |-> arg]

\* CoreTypesVisitor.make_parameter_from_argument, a mutant that takes every
\* argument for a number
make_parameter_from_argument_float(index, arg) ==
    IF arg.t \in {"float", "qubit"}
    THEN [ok |-> TRUE, name |-> IndexName(index), kind |-> "float"]
    ELSE [ok |-> FALSE, name |-> IndexName(index), kind |-> "none"]

\* CoreTypesVisitor.make_parameter_from_argument
make_parameter_from_argument(index, arg) ==
    IF arg.t = "float"
    THEN [ok |-> TRUE, name |-> IndexName(index), kind |-> "float"]
    ELSE IF arg.t = "qubit"
    THEN [ok |-> TRUE, name |-> IndexName(index), kind |-> "qubit"]
    ELSE [ok |-> FALSE, name |-> IndexName(index), kind |-> "none"]

\* GateDefinition(name, params); id is the identity of the object
GateDefinition(id, name, params) ==
    [id |-> id, name |-> name, params |-> params]

\* Parameter.validate
ParameterValidate(param, arg) ==
    \/ param.kind = "float" /\ arg.t = "float"
    \/ param.kind = "qubit" /\ arg.t = "qubit"

\* GateDefinition.__call__
GateDefinitionCall(gate_def, gate_args) ==
    IF /\ Len(gate_args) = Len(gate_def.params)
       /\ \A i \in 1..Len(gate_args) :
              ParameterValidate(gate_def.params[i], gate_args[i])
    THEN [ok |-> TRUE,
          gate |-> [name |-> gate_def.name, args |-> gate_args,
                    gate_def |-> gate_def.id]]
    ELSE [ok |-> FALSE,
          gate |-> [name |-> gate_def.name, args |-> <<>>, gate_def |-> 0]]

\* CoreTypesVisitor.get_gate_definition, a mutant that never looks up
get_gate_definition_fresh(defs, nextId, gate_name, gate_args) ==
    LET params == [i \in 1..Len(gate_args) |->
                       make_parameter_from_argument(i - 1, gate_args[i])]
        gate_def == GateDefinition(nextId, gate_name,
                       [i \in 1..Len(gate_args) |->
                            [name |-> params[i].name, kind |-> params[i].kind]])
    IN IF \A i \in 1..Len(gate_args) : params[i].ok
       THEN [ok |-> TRUE, isnew |-> TRUE, def |-> gate_def,
             defs |-> [nm \in DOMAIN defs \cup {gate_name} |->
                           IF nm = gate_name THEN gate_def ELSE defs[nm]]]
       ELSE [ok |-> FALSE, isnew |-> FALSE, def |-> gate_def, defs |-> defs]

\* CoreTypesVisitor.get_gate_definition
get_gate_definition(defs, nextId, gate_name, gate_args) ==
    IF gate_name \in DOMAIN defs
    THEN [ok |-> TRUE, isnew |-> FALSE, def |-> defs[gate_name],
          defs |-> defs]
    ELSE LET params == [i \in 1..Len(gate_args) |->
                            make_parameter_from_argument(i - 1, gate_args[i])]
             gate_def == GateDefinition(nextId, gate_name,
                            [i \in 1..Len(gate_args) |->
                                 [name |-> params[i].name,
                                  kind |-> params[i].kind]])
         IN IF \A i \in 1..Len(gate_args) : params[i].ok
            THEN [ok |-> TRUE, isnew |-> TRUE, def |-> gate_def,
                  defs |-> [nm \in DOMAIN defs \cup {gate_name} |->
                                IF nm = gate_name THEN gate_def ELSE defs[nm]]]
            ELSE [ok |-> FALSE, isnew |-> FALSE, def |-> gate_def,
                  defs |-> defs]

\* An exception leaves visitor.visit and parse_jaqal_string: a mutant that
\* drops the failing statement and goes on with the walk
RaiseSkipStatement(kind) ==
    /\ pc' = "walk"
    /\ err' = kind
    /\ children' = <<>>
    /\ UNCHANGED <<header, registers, gate_definitions, stmts, body,
                   created, circuit>>

\* An exception leaves visitor.visit and parse_jaqal_string: nothing is
\* returned and the walk is over.
Raise(kind) ==
    /\ pc' = "error"
    /\ err' = kind
    /\ circuit' = NoCircuit
    /\ UNCHANGED <<header, registers, gate_definitions, children, stmts,
                   body, created>>

\* The tree walk hands a numeric token or an unrewritten subtree to its
\* parent unchanged.
Leaves == {NumberTok(1), OtherTree}

VisitLeaf(arg) ==
    /\ pc = "walk"
    /\ Len(stmts) < MaxBody
    /\ Len(children) < MaxArgs
    /\ children' = Append(children, arg)
    /\ UNCHANGED <<header, registers, gate_definitions, stmts, body,
                   created, pc, err, circuit>>
    /\ UNCHANGED avars

Identifiers == {"r", "q"}
Indices == 0..2

VisitArrayElementQual(identifier, index) ==
    /\ pc = "walk"
    /\ Len(stmts) < MaxBody
    /\ Len(children) < MaxArgs
    /\ LET reg == visit_array_element_qual(identifier, index)
       IN IF reg.ok
          THEN /\ children' = Append(children, reg.val)
               /\ UNCHANGED <<header, registers, gate_definitions, stmts,
                              body, created, pc, err, circuit>>
          ELSE Raise(reg.err)
    /\ UNCHANGED avars

VisitGateStatement(gate_name) ==
    /\ pc = "walk"
    /\ Len(stmts) < MaxBody
    /\ LET conv == [i \in 1..Len(children) |-> convert_gate_arg(children[i])]
           gate_args == [i \in 1..Len(children) |-> conv[i].val]
       IN IF \E i \in 1..Len(children) : ~conv[i].ok
          THEN Raise("TypeError")
          ELSE LET look == get_gate_definition(gate_definitions,
                               Len(created) + 1, gate_name, gate_args)
                   call == GateDefinitionCall(look.def, gate_args)
               IN IF ~look.ok
                  THEN Raise("TypeError")
                  ELSE IF ~call.ok
                  THEN /\ pc' = "error"
                       /\ err' = "TypeError"
                       /\ circuit' = NoCircuit
                       /\ gate_definitions' = look.defs
                       /\ created' = IF look.isnew
                                     THEN Append(created, gate_name)
                                     ELSE created
                       /\ UNCHANGED <<header, registers, children, stmts,
                                      body>>
                  ELSE /\ gate_definitions' = look.defs
                       /\ created' = IF look.isnew
                                     THEN Append(created, gate_name)
                                     ELSE created
                       /\ stmts' = Append(stmts, call.gate)
                       /\ body' = Append(body, [name |-> gate_name,
                                                args |-> children])
                       /\ children' = <<>>
                       /\ UNCHANGED <<header, registers, pc, err, circuit>>
    /\ UNCHANGED avars

\* CoreTypesVisitor.visit_program, a mutant that also keeps the header
visit_program_all(header_statements, body_statements) ==
    [ok |-> TRUE,
     gates |-> [i \in 1..Len(header_statements) |->
                   [name |-> header_statements[i].kind, args |-> <<>>,
                    gate_def |-> 0]] \o body_statements]

\* CoreTypesVisitor.visit_program
visit_program(header_statements, body_statements) ==
    [ok |-> TRUE, gates |-> body_statements]

VisitProgram ==
    /\ pc = "walk"
    /\ children = <<>>
    /\ circuit' = visit_program(header, stmts)
    /\ pc' = "done"
    /\ UNCHANGED <<header, registers, gate_definitions, children, stmts,
                   body, created, err>>
    /\ UNCHANGED avars

AerIdle ==
    /\ circuits = <<>>
    /\ nshots = 0
    /\ ci = 0
    /\ probs = {}
    /\ shots = <<>>
    /\ counts = [keys |-> <<>>, map |-> [k \in {} |-> 0]]
    /\ tallies = <<>>
    /\ apc = "idle"
    /\ result = [keys |-> <<>>, map |-> [k \in {} |-> 0]]
    /\ got = [kind |-> "none", val |-> [k \in {} |-> 0]]

InitParse ==
    /\ header \in Headers
    /\ registers = VisitorRegisters(make_register_dict(header))
    /\ gate_definitions = [nm \in {} |-> 0]
    /\ children = <<>>
    /\ stmts = <<>>
    /\ body = <<>>
    /\ created = <<>>
    /\ pc = "walk"
    /\ err = "none"
    /\ circuit = NoCircuit
    /\ AerIdle

NextParse ==
    \/ \E arg \in Leaves : VisitLeaf(arg)
    \/ \E identifier \in Identifiers, index \in Indices :
           VisitArrayElementQual(identifier, index)
    \/ \E gate_name \in GateNames : VisitGateStatement(gate_name)
    \/ VisitProgram

SpecParse == InitParse /\ [][NextParse]_vars

TypeOKParse ==
    /\ pc \in {"walk", "done", "error"}
    /\ err \in {"none", "TypeError", "KeyError", "IndexError"}
    /\ Len(stmts) <= MaxBody
    /\ Len(children) <= MaxArgs

\* ========================================================================
\* Properties of parser.py, checked under SpecParse
\* ========================================================================

\* The kind of formal parameter an argument calls for.
KindOf(arg) == IF arg.t = "qubit" THEN "qubit" ELSE "float"
KindsOf(args) == [i \in 1..Len(args) |-> KindOf(args[i])]

\* What a visited argument is expected to become in the gate instance.
Converted(args) ==
    [i \in 1..Len(args) |->
        IF args[i].t = "number" THEN Float(args[i].n) ELSE args[i]]

Convertible(args) == \A i \in 1..Len(args) : args[i].t \in {"number", "qubit"}

UsedBefore(nm) == \E i \in 1..Len(body) : body[i].name = nm
FirstUse(nm) ==
    body[CHOOSE i \in 1..Len(body) :
            /\ body[i].name = nm
            /\ \A j \in 1..(i - 1) : body[j].name # nm]

\* C1: within one parse all gate instances of one gate name were made by
\* the same GateDefinition object, and at most one GateDefinition object is
\* ever constructed per gate name.
C1_OneDefinitionPerName ==
    /\ \A i, j \in 1..Len(stmts) :
           stmts[i].name = stmts[j].name =>
               stmts[i].gate_def = stmts[j].gate_def
    /\ \A i, j \in 1..Len(created) : created[i] = created[j] => i = j
    /\ \A i \in 1..Len(stmts) :
           /\ stmts[i].gate_def \in 1..Len(created)
           /\ created[stmts[i].gate_def] = stmts[i].name
           /\ stmts[i].name \in DOMAIN gate_definitions
           /\ gate_definitions[stmts[i].name].id = stmts[i].gate_def

C1_Witness ==
    /\ Len(stmts) = 2
    /\ stmts[1].name = stmts[2].name
    /\ Len(stmts[1].args) = 2
    /\ stmts[1].args # stmts[2].args

\* C2: a gate statement whose name was used earlier in the parse and whose
\* converted arguments differ from the first use in count, or in kind at
\* some position, raises a type error and yields no gate instance.
C2_IncompatibleUseRaises ==
    [][\A nm \in GateNames :
          (/\ VisitGateStatement(nm)
           /\ UsedBefore(nm)
           /\ Convertible(children)
           /\ KindsOf(children) # KindsOf(FirstUse(nm).args))
          => (/\ err' = "TypeError"
              /\ pc' = "error"
              /\ stmts' = stmts
              /\ circuit' = NoCircuit)]_vars

C2_Witness ==
    /\ err = "TypeError"
    /\ Convertible(children)
    /\ Len(body) = 1
    /\ Len(children) = 2
    /\ Len(body[1].args) = 2
    /\ KindOf(children[1]) = KindOf(body[1].args[1])
    /\ KindOf(children[2]) # KindOf(body[1].args[2])

\* C3: the returned circuit holds exactly one gate instance per body
\* statement, in the order of the body statements, and nothing of the
\* header; with no body statement the gate list is empty.
C3_GatesAreBodyInOrder ==
    pc = "done" =>
        /\ circuit.ok
        /\ Len(circuit.gates) = Len(body)
        /\ \A i \in 1..Len(body) :
               /\ circuit.gates[i].name = body[i].name
               /\ circuit.gates[i].args = Converted(body[i].args)

C3_Witness ==
    /\ pc = "done"
    /\ Len(header) = 2
    /\ Len(body) = 2
    /\ body[1] # body[2]
    /\ Len(circuit.gates) = 2

\* C4: convert_gate_arg turns a numeric literal into a float, returns a
\* NamedQubit unchanged and raises a type error for anything else; so the
\* arguments of every gate instance are floats or NamedQubits and every
\* Parameter has kind float or qubit and is named by its position index.
C4_ArgsInvariant ==
    /\ \A i \in 1..Len(stmts) :
           /\ \A j \in 1..Len(stmts[i].args) :
                  stmts[i].args[j].t \in {"float", "qubit"}
           /\ stmts[i].args = Converted(body[i].args)
    /\ \A nm \in DOMAIN gate_definitions :
           \A k \in 1..Len(gate_definitions[nm].params) :
               /\ gate_definitions[nm].params[k].kind \in {"float", "qubit"}
               /\ gate_definitions[nm].params[k].name
                      = <<"0", "1", "2", "3">>[k]

C4_ConvertGateArg ==
    /\ []C4_ArgsInvariant
    /\ [][\A nm \in GateNames :
             VisitGateStatement(nm) =>
                 IF ~Convertible(children)
                 THEN err' = "TypeError" /\ stmts' = stmts
                 ELSE ~UsedBefore(nm) =>
                          /\ err' = "none"
                          /\ Len(stmts') = Len(stmts) + 1
                          /\ stmts'[Len(stmts')].args = Converted(children)
                          /\ [k \in 1..Len(children) |->
                                 gate_definitions'[nm].params[k].kind]
                                 = KindsOf(children)]_vars

C4_Witness ==
    \E i \in 1..Len(stmts) :
        /\ Len(stmts[i].args) = 2
        /\ stmts[i].args[1] = Float(1)
        /\ stmts[i].args[2].t = "qubit"
        /\ body[i].args[1] = NumberTok(1)

\* C8: visit_array_element_qual on a declared register and an index within
\* its size yields the qubit at that index, distinct indices giving distinct
\* qubits; on an undeclared register or an index out of range it fails with
\* a lookup or index error and yields no qubit.
Declared(identifier, index) ==
    \E k \in 1..Len(header) :
        /\ header[k].kind = "register"
        /\ header[k].name = identifier
        /\ index >= 0
        /\ index < header[k].size

C8_ArrayElement ==
    /\ [][\A identifier \in Identifiers, index \in Indices :
             VisitArrayElementQual(identifier, index) =>
                 IF Declared(identifier, index)
                 THEN /\ children' = Append(children,
                                            NamedQubit(identifier, index))
                      /\ err' = "none"
                      /\ pc' = "walk"
                 ELSE /\ err' \in {"KeyError", "IndexError"}
                      /\ children' = children
                      /\ pc' = "error"]_vars
    /\ [](\A nm \in DOMAIN registers :
             \A i, j \in 1..Len(registers[nm]) :
                 i # j => registers[nm][i] # registers[nm][j])

C8_Witness ==
    /\ Len(children) = 2
    /\ children[1] = NamedQubit("r", 0)
    /\ children[2] = NamedQubit("r", 1)
    /\ children[1] # children[2]

\* C9: an error raised while converting a statement aborts the whole
\* parse: no circuit is returned, not even one holding the gates of the
\* statements before the failing one, and nothing is converted afterwards.
C9_ErrorAbortsParse ==
    /\ [](err # "none" => pc = "error" /\ circuit = NoCircuit)
    /\ [][err # "none" =>
             /\ stmts' = stmts
             /\ gate_definitions' = gate_definitions
             /\ circuit' = NoCircuit]_vars

C9_Witness ==
    /\ pc = "error"
    /\ Len(stmts) = 1
    /\ circuit = NoCircuit

\* C10: the gate-definition cache changes only when get_gate_definition is
\* called with a name not yet cached, which adds one entry built from that
\* call's arguments; a call with a cached name leaves the cache unchanged,
\* no entry is removed or replaced, the cached names are the gate names
\* seen so far, and the register table never changes.
C10_CacheFrame ==
    /\ [][gate_definitions' # gate_definitions =>
             \E nm \in GateNames :
                 /\ VisitGateStatement(nm)
                 /\ nm \notin DOMAIN gate_definitions
                 /\ DOMAIN gate_definitions'
                        = DOMAIN gate_definitions \cup {nm}
                 /\ \A m \in DOMAIN gate_definitions :
                        gate_definitions'[m] = gate_definitions[m]
                 /\ gate_definitions'[nm].name = nm
                 /\ [k \in 1..Len(children) |->
                        gate_definitions'[nm].params[k].kind]
                        = KindsOf(children)
                 /\ Len(gate_definitions'[nm].params) = Len(children)]_vars
    /\ [][\A nm \in GateNames :
             (VisitGateStatement(nm) /\ nm \in DOMAIN gate_definitions)
                 => gate_definitions' = gate_definitions]_vars
    /\ [][registers' = registers]_vars
    /\ [](DOMAIN gate_definitions = {body[i].name : i \in 1..Len(body)})

C10_Witness ==
    /\ Cardinality(DOMAIN gate_definitions) = 1
    /\ Len(body) = 2
    /\ Len(body[1].args) = 2


\* ========================================================================
\* aer.py
\* ========================================================================

RECURSIVE Pow2(_)
Pow2(q) == IF q = 0 THEN 1 ELSE 2 * Pow2(q - 1)

\* f"{x:b}": the binary digits of x, most significant first
RECURSIVE FormatBinary(_)
FormatBinary(x) ==
    IF x < 2 THEN <<x>> ELSE Append(FormatBinary(x \div 2), x % 2)

\* str.zfill(width)
RECURSIVE zfill(_, _)
zfill(s, width) == IF Len(s) >= width THEN s ELSE zfill(<<0>> \o s, width)

\* One sampled shot as execute renders it, a mutant without the padding
RenderShotUnpadded(x, qubits) == FormatBinary(x)

\* One sampled shot as execute renders it
RenderShot(x, qubits) == zfill(FormatBinary(x), qubits)

\* dict(Counter(shots))
Counter(s) ==
    [k \in Range(s) |-> Cardinality({i \in 1..Len(s) : s[i] = k})]

EmptyDict == [keys |-> <<>>, map |-> [k \in {} |-> 0]]

\* counts[key] = value, a mutant that keeps the value already stored
DictSetKeepFirst(d, key, value) ==
    IF key \in DOMAIN d.map
    THEN d
    ELSE [keys |-> Append(d.keys, key),
          map |-> [k \in DOMAIN d.map \cup {key} |->
                       IF k = key THEN value ELSE d.map[k]]]

\* counts[key] = value on a dict, which keeps the order of first insertion
DictSet(d, key, value) ==
    [keys |-> IF key \in DOMAIN d.map THEN d.keys ELSE Append(d.keys, key),
     map |-> [k \in DOMAIN d.map \cup {key} |->
                  IF k = key THEN value ELSE d.map[k]]]

NoName == [k |-> "none", s |-> "", i |-> 0]
StrName(s) == [k |-> "str", s |-> s, i |-> 0]
IntName(i) == [k |-> "int", s |-> "", i |-> i]

Returned(v) == [kind |-> "ok", val |-> v]
Raised(kind) == [kind |-> kind, val |-> [k \in {} |-> 0]]

\* self.counts[name]
DictGetItem(d, name) ==
    IF name.k = "str" /\ name.s \in DOMAIN d.map
    THEN Returned(d.map[name.s])
    ELSE Raised("KeyError")

\* IonResult.get_counts, a mutant without the single-circuit shortcut
get_counts_lookup(cnts, name) ==
    IF name.k = "int"
    THEN LET n == Len(cnts.keys)
         IN IF name.i >= 0 /\ name.i < n
            THEN DictGetItem(cnts, StrName(cnts.keys[name.i + 1]))
            ELSE IF name.i < 0 /\ name.i >= -n
            THEN DictGetItem(cnts, StrName(cnts.keys[n + name.i + 1]))
            ELSE Raised("IndexError")
    ELSE DictGetItem(cnts, name)

\* IonResult.get_counts
get_counts(cnts, name) ==
    IF Len(cnts.keys) = 1
    THEN Returned(cnts.map[cnts.keys[1]])
    ELSE IF name.k = "int"
    THEN LET n == Len(cnts.keys)
         IN IF name.i >= 0 /\ name.i < n
            THEN DictGetItem(cnts, StrName(cnts.keys[name.i + 1]))
            ELSE IF name.i < 0 /\ name.i >= -n
            THEN DictGetItem(cnts, StrName(cnts.keys[n + name.i + 1]))
            ELSE Raised("IndexError")
    ELSE DictGetItem(cnts, name)

\* The circuits execute can be given: a name and a number of qubits.
CircuitChoices == {[name |-> "a", qubits |-> 1], [name |-> "b", qubits |-> 2]}

RECURSIVE SeqsUpTo(_, _)
SeqsUpTo(S, n) ==
    IF n = 0 THEN {<<>>}
    ELSE LET shorter == SeqsUpTo(S, n - 1)
         IN shorter \cup {Append(s, x) : s \in shorter, x \in S}

\* The probability vectors the simulator can return for a circuit, each
\* given by the outcomes of non-zero probability.
Distributions(qubits) ==
    {0..(Pow2(qubits) - 1), {0}, {Pow2(qubits) - 1}}

\* execute, lines 47-50: transpile and start the loop over the circuits
Execute(circs, n) ==
    /\ apc = "idle"
    /\ circuits' = circs
    /\ nshots' = n
    /\ ci' = 0
    /\ counts' = EmptyDict
    /\ apc' = "run"
    /\ UNCHANGED <<probs, shots, tallies, result, got>>
    /\ UNCHANGED pvars

\* execute, lines 52-57: the simulator returns the probabilities
RunCircuit(p) ==
    /\ apc = "run"
    /\ ci < Len(circuits)
    /\ p \in Distributions(circuits[ci + 1].qubits)
    /\ probs' = p
    /\ shots' = <<>>
    /\ apc' = "sample"
    /\ UNCHANGED <<circuits, nshots, ci, counts, tallies, result, got>>
    /\ UNCHANGED pvars

\* execute, lines 58-61: one shot
Sample(x) ==
    /\ apc = "sample"
    /\ Len(shots) < nshots
    /\ x \in probs
    /\ shots' = Append(shots, RenderShot(x, circuits[ci + 1].qubits))
    /\ UNCHANGED <<circuits, nshots, ci, probs, counts, tallies, apc,
                   result, got>>
    /\ UNCHANGED pvars

\* execute, line 62
Tally ==
    /\ apc = "sample"
    /\ Len(shots) = nshots
    /\ counts' = DictSet(counts, circuits[ci + 1].name, Counter(shots))
    /\ tallies' = Append(tallies, Counter(shots))
    /\ ci' = ci + 1
    /\ probs' = {}
    /\ shots' = <<>>
    /\ apc' = "run"
    /\ UNCHANGED <<circuits, nshots, result, got>>
    /\ UNCHANGED pvars

\* execute, line 65
Return ==
    /\ apc = "run"
    /\ ci = Len(circuits)
    /\ result' = counts
    /\ apc' = "returned"
    /\ UNCHANGED <<circuits, nshots, ci, probs, shots, counts, tallies, got>>
    /\ UNCHANGED pvars

NameArgs ==
    {NoName} \cup {StrName(s) : s \in {"a", "b", "z"}}
             \cup {IntName(i) : i \in (-1)..MaxCircuits}

GetCounts(name) ==
    /\ apc = "returned"
    /\ got' = get_counts(result, name)
    /\ UNCHANGED <<circuits, nshots, ci, probs, shots, counts, tallies, apc,
                   result>>
    /\ UNCHANGED pvars

ParseIdle ==
    /\ header = HeaderNoRegister
    /\ registers = VisitorRegisters(make_register_dict(header))
    /\ gate_definitions = [nm \in {} |-> 0]
    /\ children = <<>>
    /\ stmts = <<>>
    /\ body = <<>>
    /\ created = <<>>
    /\ pc = "walk"
    /\ err = "none"
    /\ circuit = NoCircuit

InitAer ==
    /\ ParseIdle
    /\ circuits = <<>>
    /\ nshots = 0
    /\ ci = 0
    /\ probs = {}
    /\ shots = <<>>
    /\ counts = EmptyDict
    /\ tallies = <<>>
    /\ apc = "idle"
    /\ result = EmptyDict
    /\ got = Raised("none")

NextAer ==
    \/ \E circs \in SeqsUpTo(CircuitChoices, MaxCircuits), n \in 0..MaxShots :
           Execute(circs, n)
    \/ \E p \in SUBSET (0..3) : RunCircuit(p)
    \/ \E x \in 0..3 : Sample(x)
    \/ Tally
    \/ Return
    \/ \E name \in NameArgs : GetCounts(name)

SpecAer == InitAer /\ [][NextAer]_vars

TypeOKAer ==
    /\ apc \in {"idle", "run", "sample", "returned"}
    /\ ci <= Len(circuits)
    /\ Len(shots) <= nshots

\* ========================================================================
\* Properties of aer.py, checked under SpecAer
\* ========================================================================

\* The value a string of binary digits denotes, most significant first.
RECURSIVE BinaryValue(_)
BinaryValue(s) ==
    IF s = <<>> THEN 0
    ELSE 2 * BinaryValue(SubSeq(s, 1, Len(s) - 1)) + s[Len(s)]

\* The last of the first n circuits that has the given name.
LastNamed(name, n) ==
    CHOOSE i \in 1..n :
        /\ circuits[i].name = name
        /\ \A j \in (i + 1)..n : circuits[j].name # name

\* C5: with exactly one circuit get_counts returns that circuit's counts
\* for every name argument; with more than one circuit a string name
\* returns the mapping stored under that name and an integer i the mapping
\* of the i-th circuit name in insertion order.
C5_GetCounts ==
    [][\A name \in NameArgs :
          GetCounts(name) =>
              /\ Len(result.keys) = 1 =>
                     got' = Returned(result.map[result.keys[1]])
              /\ (/\ Len(result.keys) > 1
                  /\ name.k = "str"
                  /\ name.s \in DOMAIN result.map) =>
                     got' = Returned(result.map[name.s])
              /\ (/\ Len(result.keys) > 1
                  /\ name.k = "int"
                  /\ name.i \in 0..(Len(result.keys) - 1)) =>
                     got' = Returned(result.map[result.keys[name.i + 1]])]_vars

C5_Witness ==
    /\ apc = "returned"
    /\ Len(result.keys) = 2
    /\ result.map[result.keys[1]] # result.map[result.keys[2]]
    /\ got = Returned(result.map[result.keys[2]])

C7_OneEntryPerCircuit ==
    apc = "returned" =>
        /\ Len(result.keys) = Len(circuits)
        /\ \A i \in 1..Len(circuits) :
               /\ circuits[i].name \in DOMAIN result.map
               /\ result.map[circuits[i].name] = tallies[i]

====
